---- MODULE Spec2Model ----
(***************************************************************************)
(* Loan ledger of the MoneyLanding backend: the Transaction model with its *)
(* pre-save derivation (src/src/models/Transaction.js) and the transaction *)
(* routes (src/unnamed/part_001, lines 1-402).                             *)
(*                                                                         *)
(* A stored document carries the fields the routes and the hook read or    *)
(* write: lender, borrower, borrowerId, amount, dueDate, status, payments, *)
(* totalPaid, remainingAmount, createdAt.  interestRate, startDate and     *)
(* description are stored and returned but never read by any derivation,   *)
(* authorization or listing code, and are left out.                        *)
(*                                                                         *)
(* A handler works on a local document (what findById returned) and        *)
(* save() writes back only the paths the handler modified, pushing the     *)
(* appended payments: Load, SetPath, PushPayment and SaveDelta model that. *)
(***************************************************************************)
EXTENDS Integers, Sequences, FiniteSets, TLC

VARIABLES
    users,      \* account id -> username, for the registered accounts
    db,         \* transaction id -> stored document
    nextId,     \* the id the next created transaction gets
    now,        \* the clock read by new Date()
    resp,       \* the response of the last handled request
    reqs,       \* requests in flight (used by the interleaved specifications)
    creds       \* account id -> password and password-reset fields

vars == <<users, db, nextId, now, resp, reqs, creds>>

----------------------------------------------------------------------------
\* Bounds of the model.

MaxPayments == 2
MaxIds == 2
MaxInFlight == 2

UserIds == {"u1", "u2"}
Names == {"alice", "bob", "carol"}
NULL == "null"
Statuses == {"pending", "active", "completed", "overdue", "defaulted"}

Ids == 1..MaxIds
\* The days of the clock, of due dates and of payment dates.
Times == 0..1
\* Amounts a request body can carry: express-validator's isNumeric lets zero
\* and negative numbers through.
Amounts == (-1)..2

----------------------------------------------------------------------------
\* Pure helpers.

RECURSIVE SumAmounts(_)
SumAmounts(ps) ==
    IF ps = <<>> THEN 0 ELSE ps[1].amount + SumAmounts(Tail(ps))

\* Mutant of FindOneByUsername: the query drops its filter and returns the
\* first account.
FindOneAnyUser(n) ==
    IF \E u \in DOMAIN users : users[u] = n
    THEN CHOOSE u \in DOMAIN users : users[u] = n
    ELSE IF DOMAIN users # {} THEN CHOOSE u \in DOMAIN users : TRUE
    ELSE NULL

\* User.findOne({ username: n }): the account's id, or NULL.
FindOneByUsername(n) ==
    IF \E u \in DOMAIN users : users[u] = n
    THEN CHOOSE u \in DOMAIN users : users[u] = n
    ELSE NULL

\* Mutant of NewTransaction: the status defaults to pending.
NewTransactionPending(u, n, a, d) ==
    [lender |-> u, borrower |-> n, borrowerId |-> NULL, amount |-> a,
     dueDate |-> d, status |-> "pending", payments |-> <<>>,
     totalPaid |-> 0, remainingAmount |-> a, createdAt |-> 0]

\* The schema defaults of a document whose constructor got lender, borrower,
\* amount and dueDate: borrowerId null, status active, no payments,
\* totalPaid 0, remainingAmount the amount.
NewTransaction(u, n, a, d) ==
    [lender |-> u, borrower |-> n, borrowerId |-> NULL, amount |-> a,
     dueDate |-> d, status |-> "active", payments |-> <<>>,
     totalPaid |-> 0, remainingAmount |-> a, createdAt |-> 0]

\* Mutant of Construct: the defaulted payments array counts as modified, so
\* the hook derives a status at creation.
ConstructPaymentsModified(u, n, a, d) ==
    [f |-> NewTransaction(u, n, a, d),
     mod |-> {"lender", "borrower", "amount", "dueDate", "payments"},
     pushed |-> <<>>]

\* new Transaction({...}) as a local document: the paths the constructor was
\* given are modified, the defaulted ones (payments among them) are not.
Construct(u, n, a, d) ==
    [f |-> NewTransaction(u, n, a, d),
     mod |-> {"lender", "borrower", "amount", "dueDate"},
     pushed |-> <<>>]

\* A local document: the fields, the paths modified since it was loaded and
\* the payments pushed since it was loaded.
Load(t) == [f |-> t, mod |-> {}, pushed |-> <<>>]

\* doc.path = v: the path is marked modified only when the value changes.
SetPath(w, path, v) ==
    IF w.f[path] = v THEN w
    ELSE [w EXCEPT !.f = [w.f EXCEPT ![path] = v], !.mod = w.mod \cup {path}]

\* Mutant of PushPayment: a payment equal to a stored one is not appended
\* again.
PushPaymentOnce(w, p) ==
    IF \E i \in 1..Len(w.f.payments) : w.f.payments[i] = p
    THEN [w EXCEPT !.mod = w.mod \cup {"payments"}]
    ELSE [w EXCEPT !.f = [w.f EXCEPT !.payments = Append(w.f.payments, p)],
                   !.mod = w.mod \cup {"payments"},
                   !.pushed = Append(w.pushed, p)]

\* doc.payments.push(p)
PushPayment(w, p) ==
    [w EXCEPT !.f = [w.f EXCEPT !.payments = Append(w.f.payments, p)],
              !.mod = w.mod \cup {"payments"},
              !.pushed = Append(w.pushed, p)]

\* Mutant of DeriveStatus: an exactly repaid loan is not completed.
DeriveStatusStrict(remaining, dueDate, status, t) ==
    IF remaining < 0 THEN "completed"
    ELSE IF dueDate < t /\ status # "completed" THEN "overdue"
    ELSE status

\* Mutant of DeriveStatus: only an active loan becomes overdue.
DeriveStatusActiveOnly(remaining, dueDate, status, t) ==
    IF remaining <= 0 THEN "completed"
    ELSE IF dueDate < t /\ status = "active" THEN "overdue"
    ELSE status

\* Mutant of DeriveStatus: a defaulted or pending status is kept.
DeriveStatusSticky(remaining, dueDate, status, t) ==
    IF status \in {"defaulted", "pending"} THEN status
    ELSE IF remaining <= 0 THEN "completed"
    ELSE IF dueDate < t /\ status # "completed" THEN "overdue"
    ELSE status

\* Mutant of DeriveStatus: an overdue loan whose due date is not past goes
\* back to active.
DeriveStatusReverts(remaining, dueDate, status, t) ==
    IF remaining <= 0 THEN "completed"
    ELSE IF dueDate < t /\ status # "completed" THEN "overdue"
    ELSE IF status = "overdue" THEN "active"
    ELSE status

\* The status the hook derives.
DeriveStatus(remaining, dueDate, status, t) ==
    IF remaining <= 0 THEN "completed"
    ELSE IF dueDate < t /\ status # "completed" THEN "overdue"
    ELSE status

\* Mutant of PreSave: the remaining amount is computed from the total paid
\* before this save.
PreSaveStaleRemaining(w, t) ==
    IF "payments" \in w.mod
    THEN LET tp == SumAmounts(w.f.payments)
             w1 == SetPath(w, "remainingAmount", w.f.amount - w.f.totalPaid)
             w2 == SetPath(w1, "totalPaid", tp)
         IN SetPath(w2, "status",
                    DeriveStatus(w2.f.remainingAmount, w2.f.dueDate, w2.f.status, t))
    ELSE w

\* Mutant of PreSave: the derivation runs on every save.
PreSaveAlways(w, t) ==
    LET tp == SumAmounts(w.f.payments)
        w1 == SetPath(w, "totalPaid", tp)
        w2 == SetPath(w1, "remainingAmount", w1.f.amount - tp)
    IN SetPath(w2, "status",
               DeriveStatus(w2.f.remainingAmount, w2.f.dueDate, w2.f.status, t))

\* TransactionSchema.pre('save')
PreSave(w, t) ==
    IF "payments" \in w.mod
    THEN LET tp == SumAmounts(w.f.payments)
             w1 == SetPath(w, "totalPaid", tp)
             w2 == SetPath(w1, "remainingAmount", w1.f.amount - tp)
         IN SetPath(w2, "status",
                    DeriveStatus(w2.f.remainingAmount, w2.f.dueDate, w2.f.status, t))
    ELSE w

\* Mutant of Valid: a negative remaining amount is rejected.
ValidNoOverpayment(t) ==
    t.amount >= 1 /\ t.status \in Statuses /\ t.remainingAmount >= 0

\* Schema validation run by save(): amount min 1, status within the enum.
Valid(t) == t.amount >= 1 /\ t.status \in Statuses

\* Mutant of SaveDelta: a pushed payment dated before the last stored one
\* is put in front.
SaveDeltaByDate(stored, w) ==
    [path \in DOMAIN stored |->
        IF path = "payments"
        THEN IF /\ w.pushed # <<>> /\ stored.payments # <<>>
                /\ w.pushed[1].date < stored.payments[Len(stored.payments)].date
             THEN w.pushed \o stored.payments
             ELSE stored.payments \o w.pushed
        ELSE IF path \in w.mod THEN w.f[path]
        ELSE stored[path]]

\* What save() of an existing document leaves in the store: the modified
\* paths are set, the pushed payments are appended to the stored array.
SaveDelta(stored, w) ==
    [path \in DOMAIN stored |->
        IF path = "payments" THEN stored.payments \o w.pushed
        ELSE IF path \in w.mod THEN w.f[path]
        ELSE stored[path]]

\* Mutant of IsLender: the borrower passes the lender check too.
IsLenderOrBorrower(t, u) ==
    t.lender = u \/ t.borrowerId = u \/ t.borrower = users[u]

IsLender(t, u) == t.lender = u

\* Mutant of IsBorrower: a record without a borrowerId matches every caller.
IsBorrowerNullRef(t, u) ==
    t.borrowerId = NULL \/ t.borrowerId = u \/ t.borrower = users[u]

\* isBorrower of GET /:id and POST /:id/payment
IsBorrower(t, u) ==
    (t.borrowerId # NULL /\ t.borrowerId = u) \/ t.borrower = users[u]

Response(op, code) == [op |-> op, code |-> code, data |-> <<>>]

\* The password and reset fields of a freshly registered account: the
\* password given at registration, no reset code.  serial and spent are kept
\* for the claims (no handler reads them): how many reset codes the account
\* has been issued, and which of them a reset-password request has used.
NewCredentials ==
    [password |-> "p0", resetPasswordToken |-> NULL, resetPasswordExpire |-> 0,
     serial |-> 0, spent |-> {}]

----------------------------------------------------------------------------
Init ==
    /\ users = ("u1" :> "alice")
    /\ db = <<>>
    /\ nextId = 1
    /\ now = 0
    /\ resp = Response("none", 0)
    /\ reqs = <<>>
    /\ creds = ("u1" :> NewCredentials)

\* Time passes.
Tick ==
    /\ now + 1 \in Times
    /\ now' = now + 1
    /\ UNCHANGED <<users, db, nextId, resp, reqs, creds>>

\* Mutant of Register: the new account is linked to the records that name
\* it as borrower.
RegisterLinksLoans(u, n) ==
    /\ u \notin DOMAIN users
    /\ IF FindOneByUsername(n) # NULL
       THEN /\ resp' = Response("register", 400)
            /\ UNCHANGED <<users, db, creds>>
       ELSE /\ users' = users @@ (u :> n)
            /\ creds' = creds @@ (u :> NewCredentials)
            /\ db' = [i \in DOMAIN db |->
                         IF db[i].borrower = n
                         THEN [db[i] EXCEPT !.borrowerId = u] ELSE db[i]]
            /\ resp' = Response("register", 201)
    /\ UNCHANGED <<nextId, now, reqs>>

\* POST /api/auth/register
Register(u, n) ==
    /\ u \notin DOMAIN users
    /\ IF FindOneByUsername(n) # NULL
       THEN /\ resp' = Response("register", 400)
            /\ UNCHANGED <<users, creds>>
       ELSE /\ users' = users @@ (u :> n)
            /\ creds' = creds @@ (u :> NewCredentials)
            /\ resp' = Response("register", 201)
    /\ UNCHANGED <<db, nextId, now, reqs>>

\* POST /api/transactions
Create(u, n, a, d) ==
    /\ u \in DOMAIN users
    /\ nextId <= MaxIds
    /\ LET borrowerUser == FindOneByUsername(n)
           w0 == Construct(u, n, a, d)
           w1 == IF borrowerUser # NULL
                 THEN SetPath(w0, "borrowerId", borrowerUser) ELSE w0
           w == PreSave(w1, now)
       IN IF Valid(w.f)
          THEN /\ db' = db @@ (nextId :> [w.f EXCEPT !.createdAt = now])
               /\ nextId' = nextId + 1
               /\ resp' = Response("create", 201)
          ELSE /\ resp' = Response("create", 500)
               /\ UNCHANGED <<db, nextId>>
    /\ UNCHANGED <<users, now, reqs, creds>>

\* POST /api/transactions/:id/payment
AddPayment(u, id, a, d) ==
    /\ u \in DOMAIN users
    /\ IF id \notin DOMAIN db
       THEN /\ resp' = Response("payment", 404)
            /\ UNCHANGED db
       ELSE IF ~IsLender(db[id], u) /\ ~IsBorrower(db[id], u)
       THEN /\ resp' = Response("payment", 401)
            /\ UNCHANGED db
       ELSE /\ Len(db[id].payments) < MaxPayments
            /\ LET w == PreSave(PushPayment(Load(db[id]), [amount |-> a, date |-> d]), now)
               IN IF Valid(w.f)
                  THEN /\ db' = [db EXCEPT ![id] = SaveDelta(db[id], w)]
                       /\ resp' = Response("payment", 200)
                  ELSE /\ resp' = Response("payment", 500)
                       /\ UNCHANGED db
    /\ UNCHANGED <<users, nextId, now, reqs, creds>>

\* if (v) ... on a number of the request body: zero is falsy.
Truthy(v) == v # 0

\* Mutant of ApplyPatch: a borrower name that resolves to no account leaves
\* the old borrowerId in place.
ApplyPatchKeepsRef(w, p) ==
    LET w1 == IF "amount" \in DOMAIN p /\ Truthy(p["amount"])
              THEN SetPath(w, "amount", p["amount"]) ELSE w
        w2 == IF "dueDate" \in DOMAIN p
              THEN SetPath(w1, "dueDate", p["dueDate"]) ELSE w1
        w3 == IF "status" \in DOMAIN p
              THEN SetPath(w2, "status", p["status"]) ELSE w2
    IN IF "borrower" \in DOMAIN p
       THEN LET w4 == SetPath(w3, "borrower", p["borrower"])
            IN IF FindOneByUsername(p["borrower"]) # NULL
               THEN SetPath(w4, "borrowerId", FindOneByUsername(p["borrower"]))
               ELSE w4
       ELSE w3

\* Mutant of ApplyPatch: a lender in the body is assigned too.
ApplyPatchAssignsLender(w, p) ==
    LET w1 == IF "amount" \in DOMAIN p /\ Truthy(p["amount"])
              THEN SetPath(w, "amount", p["amount"]) ELSE w
        w2 == IF "dueDate" \in DOMAIN p
              THEN SetPath(w1, "dueDate", p["dueDate"]) ELSE w1
        w3 == IF "status" \in DOMAIN p
              THEN SetPath(w2, "status", p["status"]) ELSE w2
        w4 == IF "lender" \in DOMAIN p
              THEN SetPath(w3, "lender", p["lender"]) ELSE w3
    IN IF "borrower" \in DOMAIN p
       THEN SetPath(SetPath(w4, "borrower", p["borrower"]),
                    "borrowerId", FindOneByUsername(p["borrower"]))
       ELSE w4

\* PUT /api/transactions/:id, lines 183-205: the patch applied to the local
\* document.  A patch is a function from the fields the body carries.
ApplyPatch(w, p) ==
    LET w1 == IF "amount" \in DOMAIN p /\ Truthy(p["amount"])
              THEN SetPath(w, "amount", p["amount"]) ELSE w
        w2 == IF "dueDate" \in DOMAIN p
              THEN SetPath(w1, "dueDate", p["dueDate"]) ELSE w1
        w3 == IF "status" \in DOMAIN p
              THEN SetPath(w2, "status", p["status"]) ELSE w2
    IN IF "borrower" \in DOMAIN p
       THEN SetPath(SetPath(w3, "borrower", p["borrower"]),
                    "borrowerId", FindOneByUsername(p["borrower"]))
       ELSE w3

\* PUT /api/transactions/:id
UpdateFields(u, id, p) ==
    /\ u \in DOMAIN users
    /\ IF id \notin DOMAIN db
       THEN /\ resp' = Response("update", 404)
            /\ UNCHANGED db
       ELSE IF ~IsLender(db[id], u)
       THEN /\ resp' = Response("update", 401)
            /\ UNCHANGED db
       ELSE LET w == PreSave(ApplyPatch(Load(db[id]), p), now)
            IN IF Valid(w.f)
               THEN /\ db' = [db EXCEPT ![id] = SaveDelta(db[id], w)]
                    /\ resp' = Response("update", 200)
               ELSE /\ resp' = Response("update", 500)
                    /\ UNCHANGED db
    /\ UNCHANGED <<users, nextId, now, reqs, creds>>

\* Mutant of Delete: a record with payments is kept.
DeleteUnpaidOnly(u, id) ==
    /\ u \in DOMAIN users
    /\ IF id \notin DOMAIN db
       THEN /\ resp' = Response("delete", 404)
            /\ UNCHANGED db
       ELSE IF ~IsLender(db[id], u)
       THEN /\ resp' = Response("delete", 401)
            /\ UNCHANGED db
       ELSE /\ db' = IF db[id].payments # <<>> THEN db
                     ELSE [i \in DOMAIN db \ {id} |-> db[i]]
            /\ resp' = Response("delete", 200)
    /\ UNCHANGED <<users, nextId, now, reqs, creds>>

\* DELETE /api/transactions/:id
Delete(u, id) ==
    /\ u \in DOMAIN users
    /\ IF id \notin DOMAIN db
       THEN /\ resp' = Response("delete", 404)
            /\ UNCHANGED db
       ELSE IF ~IsLender(db[id], u)
       THEN /\ resp' = Response("delete", 401)
            /\ UNCHANGED db
       ELSE /\ db' = [i \in DOMAIN db \ {id} |-> db[i]]
            /\ resp' = Response("delete", 200)
    /\ UNCHANGED <<users, nextId, now, reqs, creds>>

\* GET /api/transactions/:id
GetTransaction(u, id) ==
    /\ u \in DOMAIN users
    /\ IF id \notin DOMAIN db
       THEN resp' = Response("read", 404)
       ELSE IF ~IsLender(db[id], u) /\ ~IsBorrower(db[id], u)
       THEN resp' = Response("read", 401)
       ELSE resp' = [op |-> "read", code |-> 200,
                     data |-> <<[id |-> id,
                                 role |-> IF IsLender(db[id], u) THEN "lender" ELSE "borrower",
                                 createdAt |-> db[id].createdAt]>>]
    /\ UNCHANGED <<users, db, nextId, now, reqs, creds>>

----------------------------------------------------------------------------
\* GET /api/transactions: the three lookups and the merge.

\* Transaction.find(filter).sort({ createdAt: -1 }): every order of the
\* matching ids that is descending in createdAt (the store leaves the order
\* of equal keys open).
FindSorted(S) ==
    LET n == Cardinality(S)
    IN {s \in [1..n -> S] :
          /\ \A i, j \in 1..n : i # j => s[i] # s[j]
          /\ \A i, j \in 1..n : i < j => db[s[i]].createdAt >= db[s[j]].createdAt}

\* t => ({ ...t.toObject(), role })
Tagged(s, role) ==
    [i \in 1..Len(s) |-> [id |-> s[i], role |-> role, createdAt |-> db[s[i]].createdAt]]

\* Array.prototype.sort with (a, b) => b.createdAt - a.createdAt: stable,
\* descending.  InsertDesc puts e behind every entry that is not older.
RECURSIVE InsertDesc(_, _)
InsertDesc(sorted, e) ==
    IF sorted = <<>> THEN <<e>>
    ELSE IF sorted[1].createdAt >= e.createdAt
         THEN <<sorted[1]>> \o InsertDesc(Tail(sorted), e)
         ELSE <<e>> \o sorted

RECURSIVE SortDesc(_)
SortDesc(s) ==
    IF s = <<>> THEN <<>>
    ELSE InsertDesc(SortDesc(SubSeq(s, 1, Len(s) - 1)), s[Len(s)])

LenderFilter(u) == {i \in DOMAIN db : db[i].lender = u}

\* Mutant of BorrowerIdFilter: the records the user lent are left out.
BorrowerIdFilterNotOwn(u) ==
    {i \in DOMAIN db : db[i].borrowerId = u /\ db[i].lender # u}

BorrowerIdFilter(u) == {i \in DOMAIN db : db[i].borrowerId = u}

\* Mutant of BorrowerNameFilter: the $ne clause is missing.
BorrowerNameFilterNoExclude(u) ==
    {i \in DOMAIN db : db[i].borrower = users[u]}

BorrowerNameFilter(u) ==
    {i \in DOMAIN db : db[i].borrower = users[u] /\ db[i].borrowerId # u}

\* The listings a call for user u can return.
HistoryFor(u) ==
    {SortDesc(Tagged(l, "lender") \o Tagged(b, "borrower") \o Tagged(n, "borrower")) :
        l \in FindSorted(LenderFilter(u)),
        b \in FindSorted(BorrowerIdFilter(u)),
        n \in FindSorted(BorrowerNameFilter(u))}

ListTransactions(u) ==
    /\ u \in DOMAIN users
    /\ \E h \in HistoryFor(u) :
          resp' = [op |-> "list", code |-> 200, data |-> h]
    /\ UNCHANGED <<users, db, nextId, now, reqs, creds>>

----------------------------------------------------------------------------
\* Request bodies.

OptField(name, S) == {<<>>} \cup {(name :> v) : v \in S}

\* Patches of the ledger fields.
LedgerPatches ==
    {a @@ d @@ s :
        a \in OptField("amount", Amounts),
        d \in OptField("dueDate", Times),
        s \in OptField("status", Statuses)}

\* Patches of the borrower name, alone or with a status, and with or without
\* a lender field (which the handler does not read).
IdentityPatches ==
    {b @@ s @@ l :
        b \in OptField("borrower", Names),
        s \in OptField("status", {"defaulted"}),
        l \in OptField("lender", UserIds)}

----------------------------------------------------------------------------
\* The ledger of one lender: the handlers run one at a time, each to
\* completion, on the one record the ledger holds or on an id no record has.
\* Payments are dated day 0 (no code reads a payment's date).
Next ==
    \/ Tick
    \/ \E a \in Amounts, d \in Times :
          DOMAIN db = {} /\ Create("u1", "bob", a, d)
    \/ \E id \in DOMAIN db \cup {nextId}, a \in Amounts : AddPayment("u1", id, a, 0)
    \/ \E id \in DOMAIN db \cup {nextId}, p \in LedgerPatches : UpdateFields("u1", id, p)

Spec == Init /\ [][Next]_vars

\* Accounts and borrower identity: accounts register, any account lends to
\* any name, and every account calls every handler on the one record held;
\* loans are of 2, due on day 1, paid in instalments of 1 dated any day, and
\* the clock stands at day 0.
NextIdentity ==
    \/ \E u \in UserIds, n \in Names : Register(u, n)
    \/ \E u \in UserIds, n \in Names :
          DOMAIN db = {} /\ Create(u, n, 2, 1)
    \/ \E u \in UserIds, id \in Ids, d \in Times : AddPayment(u, id, 1, d)
    \/ \E u \in UserIds, id \in Ids, p \in IdentityPatches : UpdateFields(u, id, p)
    \/ \E u \in UserIds, id \in Ids : Delete(u, id)
    \/ \E u \in UserIds, id \in Ids : GetTransaction(u, id)

SpecIdentity == Init /\ [][NextIdentity]_vars

\* Patches of the borrower name only.
BorrowerPatches == OptField("borrower", Names) \ {<<>>}

\* The listing: accounts register, lend to any name (themselves included),
\* rename borrowers, delete and list, over several records created on
\* different days; loans are of 1, due on day 1, and no payment is made.
NextView ==
    \/ Tick
    \/ \E u \in UserIds, n \in Names : Register(u, n)
    \/ \E u \in UserIds, n \in Names : Create(u, n, 1, 1)
    \/ \E u \in UserIds, id \in Ids, p \in BorrowerPatches : UpdateFields(u, id, p)
    \/ \E u \in UserIds, id \in Ids : Delete(u, id)
    \/ \E u \in UserIds : ListTransactions(u)

SpecView == Init /\ [][NextView]_vars

\* Patches of the status, alone or with a due date.
StatusPatches ==
    {d @@ st :
        d \in OptField("dueDate", Times),
        st \in OptField("status", Statuses)}

\* Status overrides: one loan of 2 of any due date, payments of 1 or 2 by
\* the lender, and patches of the status and the due date, as the days pass.
NextOverride ==
    \/ Tick
    \/ \E d \in Times : DOMAIN db = {} /\ Create("u1", "bob", 2, d)
    \/ \E id \in DOMAIN db \cup {nextId}, a \in 1..2 : AddPayment("u1", id, a, 0)
    \/ \E id \in DOMAIN db \cup {nextId}, p \in StatusPatches : UpdateFields("u1", id, p)

SpecOverride == Init /\ [][NextOverride]_vars

\* The catch block of a handler after an awaited store call rejected for a
\* reason other than validation (connection lost, timeout): nothing is
\* written and the answer is 500 'Server error'.
StoreFault(op) ==
    /\ resp' = Response(op, 500)
    /\ UNCHANGED <<users, db, nextId, now, reqs, creds>>

\* Patches of the principal and the status, legal or not.
FaultPatches ==
    {a @@ st :
        a \in OptField("amount", Amounts),
        st \in OptField("status", Statuses \cup {"bogus"})}

\* Failure paths: the lender creates a loan of any principal, patches it
\* with any principal and any status string, pays 1, and the store may fail
\* under any of the three handlers.
NextFaults ==
    \/ \E a \in Amounts : DOMAIN db = {} /\ Create("u1", "bob", a, 1)
    \/ \E id \in DOMAIN db \cup {nextId} : AddPayment("u1", id, 1, 0)
    \/ \E id \in DOMAIN db \cup {nextId}, p \in FaultPatches : UpdateFields("u1", id, p)
    \/ \E op \in {"create", "update", "payment"} : StoreFault(op)

SpecFaults == Init /\ [][NextFaults]_vars

----------------------------------------------------------------------------
\* Interleaved handlers.  A handler gives way at each await: after findById
\* it holds its local document while other requests run, and its save()
\* later writes the paths it modified.  reqs maps a slot to the request
\* suspended there: its handler, caller, record id, local document, patch
\* and the await it is at.

FreeSlots == (1..MaxInFlight) \ DOMAIN reqs

Suspend(r) ==
    LET slot == CHOOSE k \in FreeSlots : \A j \in FreeSlots : k <= j
    IN reqs' = reqs @@ (slot :> r)

Resume(slot) == reqs' = [k \in DOMAIN reqs \ {slot} |-> reqs[k]]

\* POST /api/transactions/:id/payment up to await transaction.save()
PaymentBegin(u, id, a, d) ==
    /\ u \in DOMAIN users
    /\ FreeSlots # {}
    /\ IF id \notin DOMAIN db
       THEN /\ resp' = Response("payment", 404)
            /\ UNCHANGED reqs
       ELSE IF ~IsLender(db[id], u) /\ ~IsBorrower(db[id], u)
       THEN /\ resp' = Response("payment", 401)
            /\ UNCHANGED reqs
       ELSE /\ Len(db[id].payments) + Cardinality(DOMAIN reqs) < MaxPayments
            /\ Suspend([op |-> "payment", user |-> u, id |-> id, patch |-> <<>>,
                        pc |-> "save",
                        w |-> PushPayment(Load(db[id]), [amount |-> a, date |-> d])])
            /\ UNCHANGED resp
    /\ UNCHANGED <<users, db, nextId, now, creds>>

\* PUT /api/transactions/:id up to its next await: User.findOne when the
\* body names a borrower, transaction.save() otherwise.
UpdateBegin(u, id, p) ==
    /\ u \in DOMAIN users
    /\ FreeSlots # {}
    /\ IF id \notin DOMAIN db
       THEN /\ resp' = Response("update", 404)
            /\ UNCHANGED reqs
       ELSE IF ~IsLender(db[id], u)
       THEN /\ resp' = Response("update", 401)
            /\ UNCHANGED reqs
       ELSE /\ Suspend([op |-> "update", user |-> u, id |-> id, patch |-> p,
                        pc |-> IF "borrower" \in DOMAIN p THEN "resolve" ELSE "save",
                        w |-> ApplyPatch(Load(db[id]),
                                         [k \in DOMAIN p \ {"borrower"} |-> p[k]])])
            /\ UNCHANGED resp
    /\ UNCHANGED <<users, db, nextId, now, creds>>

\* PUT /api/transactions/:id, lines 194-205: User.findOne answers.
UpdateResolve(slot) ==
    /\ slot \in DOMAIN reqs
    /\ reqs[slot].pc = "resolve"
    /\ reqs' = [reqs EXCEPT ![slot].pc = "save",
                            ![slot].w = ApplyPatch(reqs[slot].w,
                                 [k \in {"borrower"} |-> reqs[slot].patch[k]])]
    /\ UNCHANGED <<users, db, nextId, now, resp, creds>>

\* Mutant of SaveStep: the save of a document that is no longer stored
\* writes it back.
SaveStepUpserts(slot) ==
    /\ slot \in DOMAIN reqs
    /\ reqs[slot].pc = "save"
    /\ LET r == reqs[slot]
           w == PreSave(r.w, now)
       IN IF ~Valid(w.f)
          THEN /\ resp' = Response(r.op, 500)
               /\ UNCHANGED db
          ELSE /\ db' = IF r.id \in DOMAIN db
                        THEN [db EXCEPT ![r.id] = SaveDelta(db[r.id], w)]
                        ELSE db @@ (r.id :> w.f)
               /\ resp' = Response(r.op, 200)
    /\ Resume(slot)
    /\ UNCHANGED <<users, nextId, now, creds>>

\* await transaction.save() of a suspended request: the hook, validation,
\* the write of the modified paths, and the response.  The write addresses
\* the document by _id and inserts nothing: when the document is no longer
\* stored save() rejects (no document matched) and the handler's catch block
\* answers 500.
SaveStep(slot) ==
    /\ slot \in DOMAIN reqs
    /\ reqs[slot].pc = "save"
    /\ LET r == reqs[slot]
           w == PreSave(r.w, now)
       IN IF ~Valid(w.f) \/ r.id \notin DOMAIN db
          THEN /\ resp' = Response(r.op, 500)
               /\ UNCHANGED db
          ELSE /\ db' = [db EXCEPT ![r.id] = SaveDelta(db[r.id], w)]
               /\ resp' = Response(r.op, 200)
    /\ Resume(slot)
    /\ UNCHANGED <<users, nextId, now, creds>>

\* DELETE /api/transactions/:id up to await findByIdAndRemove
DeleteBegin(u, id) ==
    /\ u \in DOMAIN users
    /\ FreeSlots # {}
    /\ IF id \notin DOMAIN db
       THEN /\ resp' = Response("delete", 404)
            /\ UNCHANGED reqs
       ELSE IF ~IsLender(db[id], u)
       THEN /\ resp' = Response("delete", 401)
            /\ UNCHANGED reqs
       ELSE /\ Suspend([op |-> "delete", user |-> u, id |-> id, patch |-> <<>>,
                        pc |-> "remove", w |-> Load(db[id])])
            /\ UNCHANGED resp
    /\ UNCHANGED <<users, db, nextId, now, creds>>

\* await Transaction.findByIdAndRemove(id) answers: the document is removed
\* if it is still stored, and the handler answers 200 either way.
RemoveStep(slot) ==
    /\ slot \in DOMAIN reqs
    /\ reqs[slot].pc = "remove"
    /\ db' = [i \in DOMAIN db \ {reqs[slot].id} |-> db[i]]
    /\ resp' = Response("delete", 200)
    /\ Resume(slot)
    /\ UNCHANGED <<users, nextId, now, creds>>

\* Patches that name bob or carol as the borrower.
RenamePatches == OptField("borrower", {"bob", "carol"}) \ {<<>>}

\* One record, lent by u1 to bob for 2 and due on day 1, on day 0; bob may
\* register, and payments of 1 and borrower patches of any caller interleave.
NextInterleaved ==
    \/ Register("u2", "bob")
    \/ DOMAIN db = {} /\ Create("u1", "bob", 2, 1)
    \/ \E u \in UserIds, id \in Ids : PaymentBegin(u, id, 1, 0)
    \/ \E u \in UserIds, id \in Ids, p \in RenamePatches : UpdateBegin(u, id, p)
    \/ \E slot \in 1..MaxInFlight : UpdateResolve(slot)
    \/ \E slot \in 1..MaxInFlight : SaveStep(slot)

SpecInterleaved == Init /\ [][NextInterleaved]_vars

\* Patches that set the status to defaulted.
DeletionPatches == {("status" :> "defaulted")}

\* Deletion under way: u1 lends 2 to bob, one record at a time, and its
\* payments of 1, patches and deletes interleave at their awaits.
NextDeletion ==
    \/ DOMAIN db = {} /\ Create("u1", "bob", 2, 1)
    \/ \E id \in Ids : PaymentBegin("u1", id, 1, 0)
    \/ \E id \in Ids, p \in DeletionPatches : UpdateBegin("u1", id, p)
    \/ \E slot \in 1..MaxInFlight : SaveStep(slot)
    \/ \E id \in Ids : DeleteBegin("u1", id)
    \/ \E slot \in 1..MaxInFlight : RemoveStep(slot)

SpecDeletion == Init /\ [][NextDeletion]_vars

\* GET /api/transactions, one store read at a time.  The suspended request
\* carries the tagged results read so far in w; q is the set of records
\* that were on the caller's borrower side at the first read (kept for the
\* claims, the handler does not read it).

\* The records on u's borrower side, by reference or by name.
BorrowerSide(u) ==
    {i \in DOMAIN db : db[i].borrowerId = u \/ db[i].borrower = users[u]}

\* await Transaction.find({ lender }) answers.
ListLender(u) ==
    /\ u \in DOMAIN users
    /\ FreeSlots # {}
    /\ \E l \in FindSorted(LenderFilter(u)) :
          Suspend([op |-> "list", user |-> u, id |-> 0, patch |-> <<>>,
                   pc |-> "byId", q |-> BorrowerSide(u),
                   w |-> Tagged(l, "lender")])
    /\ UNCHANGED <<users, db, nextId, now, resp, creds>>

\* await Transaction.find({ borrowerId }) answers.
ListBorrowerId(slot) ==
    /\ slot \in DOMAIN reqs
    /\ reqs[slot].pc = "byId"
    /\ \E b \in FindSorted(BorrowerIdFilter(reqs[slot].user)) :
          reqs' = [reqs EXCEPT ![slot].pc = "byName",
                               ![slot].w = reqs[slot].w \o Tagged(b, "borrower")]
    /\ UNCHANGED <<users, db, nextId, now, resp, creds>>

\* await Transaction.find({ borrower, borrowerId: { $ne } }) answers; the
\* merge, the sort and the response.
ListBorrowerName(slot) ==
    /\ slot \in DOMAIN reqs
    /\ reqs[slot].pc = "byName"
    /\ \E n \in FindSorted(BorrowerNameFilter(reqs[slot].user)) :
          resp' = [op |-> "list", code |-> 200,
                   data |-> SortDesc(reqs[slot].w \o Tagged(n, "borrower"))]
    /\ Resume(slot)
    /\ UNCHANGED <<users, db, nextId, now, creds>>

\* Patches that name bob as the borrower.
SameNamePatches == {("borrower" :> "bob")}

\* Listings interleaved with updates: bob may register, u1 lends to bob,
\* any account lists read by read, and between the reads the lender may
\* send a patch naming bob as the borrower again.  No record is deleted and
\* no borrower name ever changes.
NextListing ==
    \/ Register("u2", "bob")
    \/ Create("u1", "bob", 1, 1)
    \/ \E id \in Ids, p \in SameNamePatches : UpdateFields("u1", id, p)
    \/ \E u \in UserIds : ListLender(u)
    \/ \E slot \in 1..MaxInFlight : ListBorrowerId(slot)
    \/ \E slot \in 1..MaxInFlight : ListBorrowerName(slot)

SpecListing == Init /\ [][NextListing]_vars

----------------------------------------------------------------------------
\* Password reset (src/unnamed/part_001, lines 1207-1311).

MaxCodes == 2

\* The six-digit codes getResetPasswordToken can draw, and the passwords a
\* reset-password request can carry.
Codes == {"c1", "c2"}
Passwords == {"p1", "p2"}

\* POST /api/auth/forgot-password: a code is drawn and stored with its
\* expiry.  The clock's tick is the code's lifetime: a code is good through
\* the tick it was issued in.
ForgotPassword(u) ==
    /\ IF u \notin DOMAIN users
       THEN /\ resp' = Response("forgot", 404)
            /\ UNCHANGED creds
       ELSE /\ creds[u].serial < MaxCodes
            /\ \E c \in Codes :
                  creds' = [creds EXCEPT ![u].resetPasswordToken = c,
                                         ![u].resetPasswordExpire = now,
                                         ![u].serial = @ + 1]
            /\ resp' = Response("forgot", 200)
    /\ UNCHANGED <<users, db, nextId, now, reqs>>

\* POST /api/auth/reset-password up to await user.save(): the account is
\* read and the code presented is compared with the one read.
ResetBegin(u, otp, pw) ==
    /\ FreeSlots # {}
    /\ IF u \notin DOMAIN users
       THEN /\ resp' = Response("reset", 404)
            /\ UNCHANGED reqs
       ELSE IF \/ creds[u].resetPasswordToken # otp
               \/ creds[u].resetPasswordExpire < now
       THEN /\ resp' = Response("reset", 400)
            /\ UNCHANGED reqs
       ELSE /\ Suspend([op |-> "reset", user |-> u, id |-> 0, patch |-> <<>>,
                        pc |-> "saveUser",
                        w |-> [password |-> pw, serial |-> creds[u].serial]])
            /\ UNCHANGED resp
    /\ UNCHANGED <<users, db, nextId, now, creds>>

\* await user.save() of a reset-password request: the password is set and
\* the reset fields are cleared, whatever the account holds by now.
ResetSave(slot) ==
    /\ slot \in DOMAIN reqs
    /\ reqs[slot].pc = "saveUser"
    /\ LET r == reqs[slot]
       IN creds' = [creds EXCEPT ![r.user].password = r.w.password,
                                 ![r.user].resetPasswordToken = NULL,
                                 ![r.user].resetPasswordExpire = 0,
                                 ![r.user].spent = @ \cup {r.w.serial}]
    /\ resp' = Response("reset", 200)
    /\ Resume(slot)
    /\ UNCHANGED <<users, db, nextId, now>>

\* Password reset: codes are issued to any account id, reset-password
\* requests present any code with any new password and interleave at their
\* await, and the clock ticks.
NextReset ==
    \/ Tick
    \/ \E u \in UserIds : ForgotPassword(u)
    \/ \E u \in UserIds, otp \in Codes, pw \in Passwords : ResetBegin(u, otp, pw)
    \/ \E slot \in 1..MaxInFlight : ResetSave(slot)

SpecReset == Init /\ [][NextReset]_vars

----------------------------------------------------------------------------
\* Claims on the ledger (Spec).

PaymentCommitted(u, id, a, d) == AddPayment(u, id, a, d) /\ resp'.code = 200

\* C1: after every committed addPayment the record holds the new payment
\* last, totalPaid is the sum of the stored payments' amounts and
\* remainingAmount is amount minus totalPaid.
C1_TotalsAfterPayment ==
    [][resp'.op = "payment" =>
       \A u \in UserIds, id \in Ids, a \in Amounts, d \in Times :
          PaymentCommitted(u, id, a, d) =>
             /\ db'[id].payments = Append(db[id].payments, [amount |-> a, date |-> d])
             /\ db'[id].totalPaid = SumAmounts(db'[id].payments)
             /\ db'[id].remainingAmount = db'[id].amount - db'[id].totalPaid]_vars

\* Two positive payments have been committed and the totals match them.
C1_Witness ==
    /\ resp.op = "payment" /\ resp.code = 200
    /\ \E id \in DOMAIN db :
          /\ Len(db[id].payments) = 2
          /\ \A i \in 1..2 : db[id].payments[i].amount > 0
          /\ db[id].totalPaid = db[id].payments[1].amount + db[id].payments[2].amount
          /\ db[id].remainingAmount = db[id].amount - db[id].totalPaid

\* C2: in every committed state remainingAmount = amount - totalPaid.
C2_RemainingIsAmountMinusPaid ==
    \A id \in DOMAIN db :
        db[id].remainingAmount = db[id].amount - db[id].totalPaid

\* C3 as claimed: in every committed state a record with remainingAmount <= 0
\* has status completed.
C3_NonPositiveRemainingCompleted ==
    \A id \in DOMAIN db :
        db[id].remainingAmount <= 0 => db[id].status = "completed"

Uncompleted(t) == t.remainingAmount <= 0 /\ t.status # "completed"

\* C3 as amended: a record with remainingAmount <= 0 has status completed
\* after every committed addPayment, and a step leaves such a record in
\* another status only if it already was or the step is an updateFields
\* whose patch names a status.
C3_CompletedUnlessOverridden ==
    [][/\ resp'.op = "payment" =>
             \A u \in UserIds, id \in Ids, a \in Amounts, d \in Times :
                PaymentCommitted(u, id, a, d) => ~Uncompleted(db'[id])
       /\ \A id \in DOMAIN db' :
             Uncompleted(db'[id]) =>
                /\ id \in DOMAIN db
                /\ \/ Uncompleted(db[id])
                   \/ \E u \in UserIds, p \in LedgerPatches :
                         "status" \in DOMAIN p /\ UpdateFields(u, id, p)]_vars

\* A payment completed a record whose due date has passed.
C3_Witness ==
    /\ resp.op = "payment" /\ resp.code = 200
    /\ \E id \in DOMAIN db :
          /\ db[id].remainingAmount <= 0
          /\ db[id].status = "completed"
          /\ db[id].dueDate < now

\* C5: a committed addPayment on a record that is past due, not completed
\* and still owes after the payment sets its status to overdue.
C5_OverdueAfterPayment ==
    [][resp'.op = "payment" =>
       \A u \in UserIds, id \in Ids, a \in Amounts, d \in Times :
          (/\ PaymentCommitted(u, id, a, d)
           /\ db[id].dueDate < now
           /\ db[id].status # "completed"
           /\ db'[id].remainingAmount > 0)
          => db'[id].status = "overdue"]_vars

\* A payment left a past-due record owing, and it is overdue.
C5_Witness ==
    /\ resp.op = "payment" /\ resp.code = 200
    /\ \E id \in DOMAIN db :
          /\ db[id].payments # <<>>
          /\ db[id].remainingAmount > 0
          /\ db[id].dueDate < now
          /\ db[id].status = "overdue"

\* C6: a successful create stores a record with status active, totalPaid 0,
\* remainingAmount the principal and no payments, whatever the due date.
C6_CreateInitialState ==
    [][resp'.op = "create" =>
       \A u \in UserIds, n \in Names, a \in Amounts, d \in Times :
          (Create(u, n, a, d) /\ resp'.code = 201) =>
             /\ DOMAIN db' = DOMAIN db \cup {nextId}
             /\ db'[nextId].status = "active"
             /\ db'[nextId].totalPaid = 0
             /\ db'[nextId].amount = a
             /\ db'[nextId].remainingAmount = a
             /\ db'[nextId].payments = <<>>]_vars

\* A record was just created with its due date already in the past.
C6_Witness ==
    /\ resp.op = "create" /\ resp.code = 201
    /\ \E id \in DOMAIN db :
          /\ db[id].dueDate < now
          /\ db[id].createdAt = now
          /\ db[id].status = "active"
          /\ db[id].payments = <<>>

----------------------------------------------------------------------------
\* Claims on interleaved handlers (SpecInterleaved).

\* C4: once the concurrent addPayment calls on a record have all committed,
\* the record's totalPaid is the sum of its payments and its remainingAmount
\* is the principal minus that sum.
C4_NoLostUpdate ==
    \A id \in DOMAIN db :
        (\A k \in DOMAIN reqs : reqs[k].id # id) =>
            /\ db[id].totalPaid = SumAmounts(db[id].payments)
            /\ db[id].remainingAmount = db[id].amount - SumAmounts(db[id].payments)

----------------------------------------------------------------------------
\* Claims on borrower identity (SpecIdentity).

HasAccount(n) == \E v \in DOMAIN users : users[v] = n

\* t's borrowerId is what resolving name n gives: the account named n, or
\* null when there is none.
ResolvedTo(t, n) ==
    IF HasAccount(n)
    THEN t.borrowerId \in DOMAIN users /\ users[t.borrowerId] = n
    ELSE t.borrowerId = NULL

C9_BorrowerRefMatchesName ==
    \A id \in DOMAIN db :
        db[id].borrowerId # NULL =>
            /\ db[id].borrowerId \in DOMAIN users
            /\ users[db[id].borrowerId] = db[id].borrower

----------------------------------------------------------------------------
\* Claims on the listing (SpecView).

\* How many entries of listing h are for record id under the given role.
Entries(h, id, role) ==
    Cardinality({i \in 1..Len(h) : h[i].id = id /\ h[i].role = role})

----------------------------------------------------------------------------
\* Claims on authorization (SpecIdentity).

\* The caller is the record's borrower, by reference or by name.
BorrowerOf(t, u) == t.borrowerId = u \/ t.borrower = users[u]

\* C12: updateFields and delete on a stored record succeed only for the
\* record's lender; a caller who is its borrower and not its lender gets 401
\* and the record stays stored, unchanged.
C12_OnlyLenderUpdatesOrDeletes ==
    [][resp'.op \in {"update", "delete"} =>
       \A u \in UserIds, id \in DOMAIN db :
          /\ \A p \in IdentityPatches :
                UpdateFields(u, id, p) =>
                   /\ resp'.code = 200 => db[id].lender = u
                   /\ (BorrowerOf(db[id], u) /\ db[id].lender # u) =>
                         resp'.code = 401 /\ db' = db
          /\ Delete(u, id) =>
                /\ resp'.code = 200 => db[id].lender = u
                /\ (BorrowerOf(db[id], u) /\ db[id].lender # u) =>
                      resp'.code = 401 /\ db' = db]_vars

\* The borrower of a record, who did not lend it, was just refused an update
\* or a delete.
C12_Witness ==
    /\ resp.op \in {"update", "delete"} /\ resp.code = 401
    /\ \E id \in DOMAIN db, u \in DOMAIN users :
          /\ db[id].lender # u
          /\ db[id].borrowerId = u

\* The caller is neither the record's lender nor its borrower.
Stranger(t, u) == t.lender # u /\ ~BorrowerOf(t, u)

\* C13: read, updateFields, delete and addPayment by a user who is neither
\* lender nor borrower of the stored record answer 401 without data and
\* leave the store as it was.
C13_StrangerRefused ==
    [][resp'.op \in {"read", "update", "delete", "payment"} =>
       \A u \in UserIds, id \in DOMAIN db :
          (u \in DOMAIN users /\ Stranger(db[id], u)) =>
             \A p \in IdentityPatches :
                (\/ GetTransaction(u, id)
                 \/ UpdateFields(u, id, p)
                 \/ Delete(u, id)
                 \/ \E d \in Times : AddPayment(u, id, 1, d)) =>
                   /\ resp'.code = 401
                   /\ resp'.data = <<>>
                   /\ db' = db /\ users' = users /\ nextId' = nextId]_vars

\* A registered user with no part in the stored record was just refused a
\* read or a payment.
C13_Witness ==
    /\ resp.op \in {"read", "payment"} /\ resp.code = 401
    /\ \E id \in DOMAIN db, u \in DOMAIN users : Stranger(db[id], u)

----------------------------------------------------------------------------
\* Claims on validation (Spec).

\* C14: an addPayment with a zero or negative amount on a stored record the
\* caller may pay is refused and leaves the record as it was.
C14_NonPositivePaymentRefused ==
    [][resp'.op = "payment" =>
       \A u \in UserIds, id \in DOMAIN db, a \in Amounts, d \in Times :
          (a <= 0 /\ AddPayment(u, id, a, d) /\ resp'.code # 401) =>
             /\ resp'.code # 200
             /\ db'[id] = db[id]]_vars

\* C15: a create with a principal <= 0 stores no record, and an updateFields
\* by the lender whose patch carries a principal <= 0 leaves the stored
\* record as it was (none of the patch's fields is persisted).
C15_NonPositivePrincipalRefused ==
    [][resp'.op \in {"create", "update"} =>
       /\ \A u \in UserIds, n \in Names, a \in Amounts, d \in Times :
             (a <= 0 /\ Create(u, n, a, d)) =>
                resp'.code # 201 /\ db' = db
       /\ \A u \in UserIds, id \in DOMAIN db, p \in LedgerPatches :
             (/\ "amount" \in DOMAIN p
              /\ p["amount"] <= 0
              /\ db[id].lender = u
              /\ UpdateFields(u, id, p)) =>
                db'[id] = db[id]]_vars

----------------------------------------------------------------------------
\* Claims on payments and derivation (Spec).

\* C16: a committed addPayment whose amount and date equal those of the
\* payment stored last (the same call made twice) appends one more entry
\* and raises totalPaid by the amount once more.
C16_RepeatedPaymentAppends ==
    [][resp'.op = "payment" =>
       \A u \in UserIds, id \in DOMAIN db, a \in Amounts, d \in Times :
          (/\ PaymentCommitted(u, id, a, d)
           /\ db[id].payments # <<>>
           /\ db[id].payments[Len(db[id].payments)] = [amount |-> a, date |-> d]) =>
             /\ Len(db'[id].payments) = Len(db[id].payments) + 1
             /\ db'[id].payments[Len(db'[id].payments)] = [amount |-> a, date |-> d]
             /\ db'[id].totalPaid = db[id].totalPaid + a]_vars

\* The same payment of 1 was committed twice: two equal entries, 2 paid.
C16_Witness ==
    /\ resp.op = "payment" /\ resp.code = 200
    /\ \E id \in DOMAIN db :
          /\ Len(db[id].payments) = 2
          /\ db[id].payments[1] = db[id].payments[2]
          /\ db[id].payments[1].amount = 1
          /\ db[id].totalPaid = 2

\* C17: an addPayment by the lender that brings the sum of the payments
\* above the principal is committed, leaves remainingAmount negative, equal
\* to amount minus totalPaid, and status completed; an addPayment on a
\* completed record is committed too.
C17_OverpaymentAccepted ==
    [][resp'.op = "payment" =>
       \A id \in DOMAIN db, a \in Amounts, d \in Times :
          AddPayment(db[id].lender, id, a, d) =>
             /\ SumAmounts(db[id].payments) + a > db[id].amount =>
                   /\ resp'.code = 200
                   /\ db'[id].remainingAmount < 0
                   /\ db'[id].remainingAmount = db'[id].amount - db'[id].totalPaid
                   /\ db'[id].status = "completed"
             /\ db[id].status = "completed" =>
                   /\ resp'.code = 200
                   /\ Len(db'[id].payments) = Len(db[id].payments) + 1]_vars

\* A payment was committed on a record the payment before had already
\* repaid in full, and the remaining amount is negative.
C17_Witness ==
    /\ resp.op = "payment" /\ resp.code = 200
    /\ \E id \in DOMAIN db :
          /\ Len(db[id].payments) = 2
          /\ db[id].payments[1].amount >= db[id].amount
          /\ db[id].payments[2].amount > 0
          /\ db[id].remainingAmount < 0
          /\ db[id].status = "completed"

\* C18 (SpecOverride): an updateFields by the lender whose patch names one
\* of the five statuses is committed and stores exactly that status; the
\* committed addPayment that follows replaces whatever status it finds
\* by completed when the remaining amount is <= 0, and by overdue when the
\* due date is past and the status found is not completed.
C18_StatusOverrideNotSticky ==
    [][resp'.op \in {"update", "payment"} =>
       \A id \in DOMAIN db :
          /\ \A p \in StatusPatches :
                ("status" \in DOMAIN p /\ UpdateFields(db[id].lender, id, p)) =>
                   /\ resp'.code = 200
                   /\ resp'.code = 200 => db'[id].status = p["status"]
          /\ \A a \in Amounts, d \in Times :
                PaymentCommitted(db[id].lender, id, a, d) =>
                   /\ db'[id].remainingAmount <= 0 => db'[id].status = "completed"
                   /\ (/\ db'[id].remainingAmount > 0
                       /\ db[id].dueDate < now
                       /\ db[id].status # "completed") => db'[id].status = "overdue"]_vars

\* An update just set a fully repaid record to pending.
C18_Witness ==
    /\ resp.op = "update" /\ resp.code = 200
    /\ \E id \in DOMAIN db :
          /\ db[id].payments # <<>>
          /\ db[id].remainingAmount <= 0
          /\ db[id].status = "pending"

\* C19: a committed addPayment that leaves remainingAmount > 0 on a record
\* that is not both past due and uncompleted leaves the status as it was.
C19_StatusLeftUnchanged ==
    [][resp'.op = "payment" =>
       \A u \in UserIds, id \in DOMAIN db, a \in Amounts, d \in Times :
          (/\ PaymentCommitted(u, id, a, d)
           /\ db'[id].remainingAmount > 0
           /\ ~(db[id].dueDate < now /\ db[id].status # "completed")) =>
             db'[id].status = db[id].status]_vars

\* A payment was committed on an overdue record whose due date is not past
\* (it was moved), and the record is still overdue.
C19_Witness ==
    /\ resp.op = "payment" /\ resp.code = 200
    /\ \E id \in DOMAIN db :
          /\ db[id].status = "overdue"
          /\ db[id].dueDate >= now
          /\ db[id].createdAt < now
          /\ db[id].remainingAmount > 0

\* C20: a create or addPayment never moves a record into defaulted or
\* pending; a step after which a record has one of the two statuses it did
\* not have before is an updateFields whose patch names that status.
C20_NoDerivedDefaultedOrPending ==
    [][\A id \in DOMAIN db' :
          (/\ db'[id].status \in {"defaulted", "pending"}
           /\ (id \in DOMAIN db => db[id].status # db'[id].status)) =>
             /\ resp'.op = "update"
             /\ id \in DOMAIN db
             /\ \E u \in UserIds, p \in LedgerPatches :
                   /\ "status" \in DOMAIN p
                   /\ p["status"] = db'[id].status
                   /\ UpdateFields(u, id, p)]_vars

\* A payment was committed on a defaulted record and left it defaulted.
C20_Witness ==
    /\ resp.op = "payment" /\ resp.code = 200
    /\ \E id \in DOMAIN db :
          /\ db[id].status = "defaulted"
          /\ db[id].payments # <<>>

----------------------------------------------------------------------------
\* Claims on what the handlers leave alone.

\* C21 (SpecIdentity): an updateFields or addPayment by any caller, whatever
\* the patch carries (a lender field included), leaves every record under
\* its id with the lender and the creation time it had.
C21_IdAndLenderImmutable ==
    [][resp'.op \in {"update", "payment"} =>
          /\ DOMAIN db' = DOMAIN db
          /\ \A id \in DOMAIN db :
                /\ db'[id].lender = db[id].lender
                /\ db'[id].createdAt = db[id].createdAt]_vars

\* An update was committed on a paid record while an account other than
\* its lender exists (a patch can name it as lender).
C21_Witness ==
    /\ resp.op = "update" /\ resp.code = 200
    /\ \E id \in DOMAIN db :
          /\ db[id].payments # <<>>
          /\ \E v \in DOMAIN users : v # db[id].lender

\* C22 (SpecIdentity): over every step a record's stored payments are a
\* prefix of its payments afterwards; they grow only in a committed
\* addPayment, by the one new entry placed last whatever its date; every
\* other step on a record that stays stored leaves them as they were.
C22_PaymentsAppendOnly ==
    [][\A id \in DOMAIN db \cap DOMAIN db' :
          LET old == db[id].payments
              new == db'[id].payments
          IN /\ Len(new) >= Len(old)
             /\ SubSeq(new, 1, Len(old)) = old
             /\ Len(new) > Len(old) =>
                   /\ resp'.op = "payment" /\ resp'.code = 200
                   /\ Len(new) = Len(old) + 1
             /\ \A u \in UserIds, d \in Times :
                   PaymentCommitted(u, id, 1, d) =>
                      new = Append(old, [amount |-> 1, date |-> d])]_vars

\* A payment dated before the one already stored was committed and stands
\* behind it.
C22_Witness ==
    /\ resp.op = "payment" /\ resp.code = 200
    /\ \E id \in DOMAIN db :
          /\ Len(db[id].payments) = 2
          /\ db[id].payments[2].date < db[id].payments[1].date

----------------------------------------------------------------------------
\* Claims on deletion (SpecIdentity).

\* The ids that were given to a record that is no longer stored.
DeletedIds == {id \in Ids : id < nextId /\ id \notin DOMAIN db}

\* C23: a delete by the record's lender answers 200 and removes the record,
\* whatever its status and payments; from then on the id stays absent, read,
\* updateFields, delete and addPayment on it answer 404 for every caller and
\* change nothing (a step that does not is none of the four on that id),
\* and no user's listing has an entry for it.
C23_DeleteRemoves ==
    /\ [](\A u \in DOMAIN users : \A h \in HistoryFor(u) :
             \A i \in 1..Len(h) : h[i].id \notin DeletedIds)
    /\ [][/\ \A id \in DOMAIN db :
                Delete(db[id].lender, id) =>
                   resp'.code = 200 /\ id \notin DOMAIN db'
          /\ \A id \in DeletedIds :
                /\ id \notin DOMAIN db'
                /\ ~(resp'.code = 404 /\ db' = db) =>
                      \A u \in UserIds :
                         /\ ~GetTransaction(u, id)
                         /\ ~Delete(u, id)
                         /\ resp'.op = "update" =>
                               \A p \in IdentityPatches : ~UpdateFields(u, id, p)
                         /\ resp'.op = "payment" =>
                               \A d \in Times : ~AddPayment(u, id, 1, d)]_vars

\* A record was deleted and a later one is stored: a request on the deleted
\* id was just answered 404.
C23_Witness ==
    /\ resp.code = 404
    /\ 1 \in DeletedIds
    /\ 2 \in DOMAIN db
    /\ nextId = 3

----------------------------------------------------------------------------
\* Claims on failure paths (SpecFaults).

\* The handler of op answered a request whose document failed validation.
ValidationFailed(op) ==
    /\ resp'.code = 500
    /\ \/ op = "create" /\ \E a \in Amounts : Create("u1", "bob", a, 1)
       \/ op = "update" /\ \E id \in DOMAIN db, p \in FaultPatches :
                                UpdateFields("u1", id, p)
       \/ op = "payment" /\ \E id \in DOMAIN db : AddPayment("u1", id, 1, 0)

\* C24: what the caller gets for a validation failure of create,
\* updateFields or addPayment is never what it gets for a store fault: no
\* step is both.
C24_ValidationDistinctFromFault ==
    [][\A op \in {"create", "update", "payment"} :
          StoreFault(op) => ~ValidationFailed(op)]_vars

----------------------------------------------------------------------------
\* Claims on late registration (SpecIdentity).

\* Account u is named as the borrower of t, which refers to no account.
BorrowerByNameOnly(t, u) ==
    u \in DOMAIN users /\ t.borrowerId = NULL /\ t.borrower = users[u]

----------------------------------------------------------------------------
\* Claims on the listing read by read (SpecListing).

\* C26: a record that is on the caller's borrower side from the first read
\* of the listing to its last (here: at the first read, for no record is
\* deleted and no borrower name changes) has exactly one borrower entry in
\* the listing returned.
C26_BorrowerSideListedOnce ==
    [][resp'.op = "list" =>
       \A slot \in DOMAIN reqs :
          ListBorrowerName(slot) =>
             \A id \in reqs[slot].q :
                /\ id \in BorrowerSide(reqs[slot].user)
                /\ Entries(resp'.data, id, "borrower") = 1]_vars

----------------------------------------------------------------------------
\* Further claims on interleaved handlers (SpecInterleaved).

\* C27: when the save of an addPayment commits, the caller is the lender or
\* the borrower (by reference or by name) of the record as stored at that
\* moment.
C27_PayerHasRoleAtWrite ==
    [][resp'.op = "payment" =>
       \A slot \in DOMAIN reqs :
          (SaveStep(slot) /\ reqs[slot].op = "payment" /\ resp'.code = 200) =>
             \/ db[reqs[slot].id].lender = reqs[slot].user
             \/ BorrowerOf(db[reqs[slot].id], reqs[slot].user)]_vars

----------------------------------------------------------------------------
\* Further claims on the ledger (Spec).

\* Patches of the ledger fields that name no status.
NoStatusPatches ==
    {a @@ d : a \in OptField("amount", Amounts), d \in OptField("dueDate", Times)}

\* What the PUT handler's save leaves of stored record t for patch p: the
\* steps of UpdateFields past its authorization check.
Updated(t, p) ==
    LET w == PreSave(ApplyPatch(Load(t), p), now)
    IN IF Valid(w.f) THEN SaveDelta(t, w) ELSE t

\* C28: in every reachable state an updateFields whose patch names no
\* status would leave the record's status, payments and totalPaid as they
\* are, whatever the patch does to the principal and the due date; and
\* every updateFields step taken, of whatever patch, leaves payments and
\* totalPaid as they were.
C28_UpdateRunsNoDerivation ==
    /\ [](\A id \in DOMAIN db, p \in NoStatusPatches :
             /\ Updated(db[id], p).status = db[id].status
             /\ Updated(db[id], p).payments = db[id].payments
             /\ Updated(db[id], p).totalPaid = db[id].totalPaid)
    /\ [][resp'.op = "update" =>
           \A id \in DOMAIN db :
              /\ id \in DOMAIN db'
              /\ db'[id].payments = db[id].payments
              /\ db'[id].totalPaid = db[id].totalPaid]_vars

\* An update lowered the principal of a paid loan to at most the total paid
\* and the loan is still active, its remaining amount still positive.
C28_Witness ==
    /\ resp.op = "update" /\ resp.code = 200
    /\ \E id \in DOMAIN db :
          /\ db[id].payments # <<>>
          /\ db[id].amount <= db[id].totalPaid
          /\ db[id].remainingAmount > 0
          /\ db[id].status = "active"

----------------------------------------------------------------------------
\* Claims on deletion under way (SpecDeletion).

\* C29: an id whose record was removed stays absent over every step, and
\* the save of an addPayment or updateFields that read the record before it
\* was removed writes nothing and does not answer 200.
C29_NoResurrection ==
    [][/\ \A id \in DeletedIds : id \notin DOMAIN db'
       /\ \A slot \in DOMAIN reqs :
             (SaveStep(slot) /\ reqs[slot].id \notin DOMAIN db) =>
                /\ resp'.code # 200
                /\ db' = db]_vars

\* A payment or an update that had read a record since removed has just
\* been answered 500, no request is in flight, and the record is gone.
C29_Witness ==
    /\ resp.op \in {"payment", "update"} /\ resp.code = 500
    /\ reqs = <<>>
    /\ DeletedIds # {}

----------------------------------------------------------------------------
\* Claims on password reset (SpecReset).

\* C30: a reset code is used at most once: the save of a reset-password
\* request never sets the password on the strength of a code that an
\* earlier request has already used.
C30_ResetCodeSingleUse ==
    [][resp'.op = "reset" =>
       \A slot \in DOMAIN reqs :
          ResetSave(slot) =>
             reqs[slot].w.serial \notin creds[reqs[slot].user].spent]_vars

====
